---- MODULE Spec2Model ----
\* A model of renpy_warp.rpe.py: the background worker that scans the ports
\* 40111..40120 for the warp server, the websocket listener that dispatches
\* inbound commands to the main thread, and the character callback that
\* reports the current line.
\*
\* The websockets library and the Ren'Py host are the environment. Of the
\* library the model takes: iterating a connection yields the frames received
\* and ends quietly after a normal closure (1000), raising ConnectionClosedError
\* (a WebSocketException with a code) after any other; send raises
\* ConnectionClosedOK or ConnectionClosedError on a closed connection; an
\* invalid handshake raises a WebSocketException that has no code. Of the host:
\* the post_init callbacks run once, during the init phase; character
\* callbacks and the work given to invoke_in_main_thread run on the main
\* thread; script files lie under game/.
EXTENDS Integers, Sequences, FiniteSets, TLC

\* ---------------------------------------------------------------- bounds
MaxStarts == 2      \* direct calls of start_renpy_warp_service (SpecCalls)
MaxConns  == 2      \* connections that are established in one run
MaxInbox  == 2      \* messages the peer sends in one run
MaxSends  == 2      \* websocket.send calls made in one run

\* ------------------------------------------------------ program constants
FirstPort    == 40111
LastPort     == 40120
ShutdownCode == 4000

Ports == FirstPort .. LastPort

\* ---------------------------------------------------------------- state
VARIABLES
    developer,                \* renpy.config.developer
    init_phase,               \* renpy.exports.is_init_phase()
    post_init,                \* renpy.game.post_init, callbacks not yet run
    classified,               \* build rule "game/renpy_warp_*.rpe" -> None set
    threads,                  \* the threads running try_socket_ports_forever
    conns,                    \* the websocket connections opened so far
    all_character_callbacks,  \* renpy.config.all_character_callbacks
    quit_callbacks,           \* renpy.config.quit_callbacks
    main_queue,               \* work handed to invoke_in_main_thread
    autoreload,               \* renpy.get_autoreload(), off until it is set
    reloads,                  \* renpy.reload_script() calls run so far
    escaped,                  \* an exception left fn into the host's dispatch
    other_call,               \* the last call of a callback had interact false
                              \*   or an event that is not "begin"
    nframes                   \* text frames the peer has sent so far

vars == << developer, init_phase, post_init, classified, threads, conns,
           all_character_callbacks, quit_callbacks, main_queue, autoreload,
           reloads, escaped, other_call, nframes >>

hostvars == << developer, init_phase, post_init, classified >>
mainvars == << main_queue, autoreload, reloads >>
cbvars   == << all_character_callbacks, quit_callbacks, escaped, other_call >>

\* ------------------------------------------------------- inbound messages
\* A text frame: json says whether json.loads accepts it, keys are the keys
\* of the decoded object.
Frame(j, k, t, f, l) == [json |-> j, keys |-> k, type |-> t, file |-> f, line |-> l]

WarpMsg    == Frame(TRUE, {"type", "file", "line"}, "warp_to_line", "script.rpy", 7)
AutoMsg    == Frame(TRUE, {"type"}, "set_autoreload", "", 0)
ReloadMsg  == Frame(TRUE, {"type"}, "reload", "", 0)
OtherMsg   == Frame(TRUE, {"type"}, "ping", "", 0)
NoTypeMsg  == Frame(TRUE, {"file"}, "", "script.rpy", 0)
BadJsonMsg == Frame(FALSE, {}, "", "", 0)

Messages == {WarpMsg, AutoMsg, ReloadMsg, OtherMsg, NoTypeMsg, BadJsonMsg}

\* json.loads raises on text that is not JSON; payload["type"] raises KeyError
\* when the key is absent. Neither is caught in socket_listener.
Raises(m) == ~m.json \/ "type" \notin m.keys

Recognized(m) == ~Raises(m) /\ m.type \in {"warp_to_line", "set_autoreload", "reload"}

\* The code text handed to py_exec for a recognized message.
Text(op, arg) == [op |-> op, arg |-> arg]
NoText == Text("", <<>>)

ScriptOf(m) ==
    IF m.type = "warp_to_line" THEN Text("warp_to_line", <<m.file, m.line>>)
    ELSE IF m.type = "set_autoreload" THEN Text("set_autoreload", <<>>)
    ELSE Text("reload_script", <<>>)

\* ------------------------------------------------------ outbound messages
\* What renpy.exports.get_filename_line() can return: a script file under
\* game/ and a line.
Locations == { << <<"game", "a.rpy">>, 1 >>, << <<"game", "a.rpy">>, 2 >> }

gamedir == << "proj", "game" >>

\* Path(filename).relative_to('game')
relative_to_game(filename) == Tail(filename)

\* json.dumps of the current_line message
current_line(loc) ==
    [ type |-> "current_line",
      line |-> loc[2],
      path |-> gamedir \o relative_to_game(loc[1]),
      relative_path |-> relative_to_game(loc[1]) ]


\* ------------------------------------------------------------ connections
CloseCodes == {1000, 1006, ShutdownCode}
OkCodes    == {1000}

\* code = 0 while the connection is open, else the close code the library
\* reports; inbox holds the frames received and not yet read, dropped counts
\* the frames that were still unread when the agent left the connection.
\* first belongs to the closure fn made for the connection; begins counts the
\* qualifying events fn was called with, sends its calls of websocket.send,
\* out lists the messages that went out; unhandled counts the lines
\* "unhandled message type ..." the listener has printed for the connection.
NewConn ==
    [ code |-> 0, inbox |-> <<>>, dropped |-> 0, unhandled |-> 0,
      first |-> TRUE, begins |-> 0, out |-> <<>>, sends |-> 0 ]

IsOpen(k) == k.code = 0

\* Mutant of with_exit: leaving the with block does not close the socket.
with_exit_Keep(k) ==
    [k EXCEPT !.inbox = <<>>, !.dropped = @ + Len(k.inbox)]

\* Leaving the `with connect(...)` block closes the socket (normal closure)
\* when it is still open; the frames not yet read are dropped with it.
with_exit(k) ==
    [k EXCEPT !.code = IF IsOpen(k) THEN 1000 ELSE @,
              !.inbox = <<>>, !.dropped = @ + Len(k.inbox)]

RECURSIVE SumOver(_, _)
SumOver(q, n) == IF n = 0 THEN 0 ELSE q[n] + SumOver(q, n - 1)

\* The send calls made, over all connections.
SendCalls  == SumOver([c \in DOMAIN conns |-> conns[c].sends], Len(conns))

\* The listener has taken the first frame of the inbox.
Consume(k) == [k EXCEPT !.inbox = Tail(@)]

\* --------------------------------------------------------------- threads
NewThread ==
    [ pc |-> "connect", port |-> FirstPort, service_closed |-> FALSE,
      conn |-> 0, text |-> NoText, scan |-> <<>> ]

Workers == 1 .. Len(threads)

\* Mutant of NextPort: the scan skips every other port.
NextPort_Skip(port) == port + 2

NextPort(port) == port + 1

\* Mutant of ForNext: the scan stays on the port of the connection that ended.
ForNext_Linger(t, r) ==
    IF r THEN [t EXCEPT !.service_closed = TRUE, !.pc = "sleep", !.conn = 0, !.text = NoText]
    ELSE [t EXCEPT !.pc = "connect", !.conn = 0, !.text = NoText]

\* try_socket_ports_forever, after socket_service returned r for t.port: break
\* out of the for loop when r, go to the next port, or fall out of the loop
\* after the last port; both ways out of the loop lead to sleep(5).
ForNext(t, r) ==
    IF r THEN [t EXCEPT !.service_closed = TRUE, !.pc = "sleep", !.conn = 0, !.text = NoText]
    ELSE IF t.port < LastPort
         THEN [t EXCEPT !.port = NextPort(t.port), !.pc = "connect", !.conn = 0, !.text = NoText]
         ELSE [t EXCEPT !.pc = "sleep", !.conn = 0, !.text = NoText]

\* Mutant of WhileNext: the while loop does not test service_closed.
WhileNext_Forever(t) ==
    [t EXCEPT !.pc = "connect", !.port = FirstPort, !.scan = <<>>]

\* while service_closed is False: after sleep(5) the loop ends or a new pass
\* starts at the first port.
WhileNext(t) ==
    IF t.service_closed THEN [t EXCEPT !.pc = "done"]
    ELSE [t EXCEPT !.pc = "connect", !.port = FirstPort, !.scan = <<>>]

\* An exception that no except clause of socket_service catches ends the
\* thread's target function, and its locals are gone.
Die(t) == [NewThread EXCEPT !.pc = "dead", !.port = 0]

\* The value socket_service returns once the connection has ended with close
\* code `code`: ConnectionClosedOK, or a WebSocketException with e.code.
ServiceResult(code) == code \notin OkCodes /\ code = ShutdownCode

\* ------------------------------------------------------------------ init
Init ==
    /\ developer \in BOOLEAN
    /\ init_phase = TRUE
    /\ post_init = << "declassify", "start_renpy_warp_service" >>
    /\ classified = FALSE
    /\ threads = <<>>
    /\ conns = <<>>
    /\ all_character_callbacks = <<>>
    /\ quit_callbacks = <<>>
    /\ main_queue = <<>>
    /\ autoreload = FALSE
    /\ reloads = 0
    /\ escaped = FALSE
    /\ other_call = FALSE
    /\ nframes = 0

\* --------------------------------------------------------------- lifecycle
\* Mutant of Started: the thread is started whatever the developer flag.
Started_Always(ts) == Append(ts, NewThread)

\* start_renpy_warp_service: one more thread when the developer flag is set.
Started(ts) == IF developer THEN Append(ts, NewThread) ELSE ts

\* The host runs the next callback of renpy.game.post_init.
run_post_init ==
    /\ post_init # <<>>
    /\ post_init' = Tail(post_init)
    /\ IF Head(post_init) = "declassify"
       THEN classified' = TRUE /\ threads' = threads
       ELSE classified' = classified /\ threads' = Started(threads)
    /\ UNCHANGED << developer, init_phase, conns, cbvars, mainvars, nframes >>

\* The host leaves its init phase once the post_init callbacks have run.
init_done ==
    /\ init_phase
    /\ post_init = <<>>
    /\ init_phase' = FALSE
    /\ UNCHANGED << developer, post_init, classified, threads, conns, cbvars, mainvars, nframes >>

\* A call of start_renpy_warp_service other than the one post_init makes.
start_renpy_warp_service ==
    /\ Len(threads) < MaxStarts
    /\ threads' = Started(threads)
    /\ UNCHANGED << hostvars, conns, cbvars, mainvars, nframes >>

\* ------------------------------------------------------ connection manager
ConnectOutcomes == {"ok", "refused", "handshake", "timeout"}

\* socket_service(port) up to the point where the connection is established
\* or the attempt has failed.
\*   ok         the handshake succeeds: the quit callback and the reporter
\*              callback are registered and the listener starts;
\*   refused    ConnectionRefusedError: logged, False is returned;
\*   handshake  a WebSocketException without a code attribute (an invalid
\*              handshake): the handler's e.code raises AttributeError;
\*   timeout    TimeoutError, which no except clause names.
socket_service(w, outcome) ==
    LET t  == threads[w]
        t1 == [t EXCEPT !.scan = Append(@, t.port)]
        c  == Len(conns) + 1
    IN  /\ t.pc = "connect"
        /\ CASE outcome = "ok" ->
                  /\ Len(conns) < MaxConns
                  /\ conns' = Append(conns, NewConn)
                  /\ quit_callbacks' = Append(quit_callbacks, c)
                  /\ all_character_callbacks' = Append(all_character_callbacks, c)
                  /\ threads' = [threads EXCEPT ![w] = [t1 EXCEPT !.pc = "listen", !.conn = c]]
             [] outcome = "refused" ->
                  /\ threads' = [threads EXCEPT ![w] = ForNext(t1, FALSE)]
                  /\ UNCHANGED << conns, quit_callbacks, all_character_callbacks >>
             [] OTHER ->
                  /\ threads' = [threads EXCEPT ![w] = Die(t1)]
                  /\ UNCHANGED << conns, quit_callbacks, all_character_callbacks >>
        /\ UNCHANGED << hostvars, mainvars, escaped, other_call, nframes >>

\* sleep(5) at the end of a pass, then the while condition.
backoff(w) ==
    /\ threads[w].pc = "sleep"
    /\ threads' = [threads EXCEPT ![w] = WhileNext(threads[w])]
    /\ UNCHANGED << hostvars, conns, cbvars, mainvars, nframes >>

\* ------------------------------------------------------ command dispatcher
\* What the listener does with a frame it could decode and whose type it
\* knows: the thread enters py_exec with the code text.
Dispatch(t, m) == [t EXCEPT !.pc = "py_exec", !.text = ScriptOf(m)]

\* The thread after json.loads or payload["type"] raised on frame m.
OnMalformed(t, m) == Die(t)

\* Mutant of OnUnhandled: a frame of unknown type ends the receive loop.
OnUnhandled_Break(t, m) == ForNext(t, FALSE)

\* The thread after a frame m whose type matches no branch: the else branch
\* prints and the for loop takes its next turn.
OnUnhandled(t, m) == t

\* print(f"unhandled message type '{payload['type']}'")
LogUnhandled(k) == [k EXCEPT !.unhandled = @ + 1]

\* One turn of `for message in websocket`: the next frame when there is one,
\* else the end of the iteration once the connection is closed.
socket_listener(w) ==
    LET t == threads[w]
        c == t.conn
        k == conns[c]
    IN  /\ t.pc = "listen"
        /\ IF k.inbox # <<>>
           THEN LET m == Head(k.inbox) IN
                IF Raises(m)
                THEN /\ conns' = [conns EXCEPT ![c] = with_exit(Consume(k))]
                     /\ threads' = [threads EXCEPT ![w] = OnMalformed(t, m)]
                ELSE IF Recognized(m)
                THEN /\ conns' = [conns EXCEPT ![c] = Consume(k)]
                     /\ threads' = [threads EXCEPT ![w] = Dispatch(t, m)]
                ELSE /\ conns' = [conns EXCEPT ![c] = LogUnhandled(Consume(k))]
                     /\ threads' = [threads EXCEPT ![w] = OnUnhandled(t, m)]
           ELSE /\ ~IsOpen(k)
                /\ conns' = [conns EXCEPT ![c] = with_exit(k)]
                /\ threads' = [threads EXCEPT ![w] = ForNext(t, ServiceResult(k.code))]
        /\ UNCHANGED << hostvars, cbvars, mainvars, nframes >>

\* Mutant of AfterExec: no `break` after a reload.
AfterExec_NoBreak(t) == [t EXCEPT !.pc = "listen", !.text = NoText]

\* The listener after py_exec(text) returned: `break` after a reload, else
\* the next turn of the loop.
AfterExec(t) ==
    IF t.text.op = "reload_script" THEN ForNext(t, FALSE)
    ELSE [t EXCEPT !.pc = "listen", !.text = NoText]

\* Mutant of is_init_phase: py_exec never sees the init phase.
is_init_phase_Never == FALSE

\* renpy.exports.is_init_phase(), the condition of py_exec's polling loop.
is_init_phase == init_phase

\* Mutant of invoke_in_main_thread: the work is put in front of the work that
\* is waiting.
invoke_in_main_thread_Front(q, text) == << text >> \o q

\* renpy.exports.invoke_in_main_thread(fn): the work joins the work waiting
\* for the main thread, and the call returns.
invoke_in_main_thread(q, text) == Append(q, text)

\* py_exec: once the init phase is over, hand the text to the main thread.
py_exec(w) ==
    LET t == threads[w]
        c == t.conn
        k == conns[c]
    IN  /\ t.pc = "py_exec"
        /\ ~is_init_phase
        /\ main_queue' = invoke_in_main_thread(main_queue, t.text)
        /\ threads' = [threads EXCEPT ![w] = AfterExec(t)]
        /\ conns' = [conns EXCEPT ![c] = IF AfterExec(t).pc = "listen" THEN k ELSE with_exit(k)]
        /\ UNCHANGED << hostvars, cbvars, autoreload, reloads, nframes >>

\* Mutant of set_autoreload_script: the script reloads whatever autoreload is.
set_autoreload_script_Always(a) == [autoreload |-> TRUE, reload |-> TRUE]

\* The script of set_autoreload run while renpy.get_autoreload() is a: the
\* value of autoreload afterwards and whether renpy.reload_script() is called.
set_autoreload_script(a) ==
    IF a = FALSE THEN [autoreload |-> TRUE, reload |-> TRUE]
    ELSE [autoreload |-> a, reload |-> FALSE]

\* The main thread runs the oldest piece of work handed to it. A warp moves
\* the host's script position, which is not part of this state.
main_thread ==
    LET text == Head(main_queue) IN
    /\ main_queue # <<>>
    /\ main_queue' = Tail(main_queue)
    /\ CASE text.op = "warp_to_line" ->
              UNCHANGED << autoreload, reloads >>
         [] text.op = "set_autoreload" ->
              /\ autoreload' = set_autoreload_script(autoreload).autoreload
              /\ reloads' = IF set_autoreload_script(autoreload).reload
                            THEN reloads + 1 ELSE reloads
         [] OTHER ->
              reloads' = reloads + 1 /\ autoreload' = autoreload
    /\ UNCHANGED << hostvars, threads, conns, cbvars, nframes >>

\* ------------------------------------------------------- location reporter
Events == {"begin", "end"}

Range(q) == { q[i] : i \in DOMAIN q }

\* list.remove(x): the list without the first occurrence of x.
RECURSIVE Remove(_, _)
Remove(q, x) ==
    IF q = <<>> THEN <<>>
    ELSE IF Head(q) = x THEN Tail(q)
    ELSE << Head(q) >> \o Remove(Tail(q), x)

\* Mutant of Qualifies: fn goes on for every interact event.
Qualifies_AnyEvent(event, interact) == interact

\* fn goes on only for an interact event of kind "begin".
Qualifies(event, interact) == interact /\ event = "begin"

\* websocket.send on connection k: it succeeds while the connection is open,
\* raises ConnectionClosedOK after a normal closure and ConnectionClosedError
\* after any other.
SendResult(k) ==
    IF IsOpen(k) THEN "sent"
    ELSE IF k.code \in OkCodes THEN "closed_ok"
    ELSE "closed_error"

\* Mutant of AfterBegin: the first qualifying event is sent like the others.
AfterBegin_NoSkip(k, message) ==
    [k EXCEPT !.first = FALSE, !.begins = @ + 1, !.sends = @ + 1,
              !.out = IF IsOpen(k) THEN Append(@, message) ELSE @]

\* The closure's state after a qualifying event: the first one only clears
\* `first`; each later one calls websocket.send(message).
AfterBegin(k, message) ==
    IF k.first
    THEN [k EXCEPT !.first = FALSE, !.begins = @ + 1]
    ELSE [k EXCEPT !.begins = @ + 1, !.sends = @ + 1,
                   !.out = IF SendResult(k) = "sent" THEN Append(@, message) ELSE @]

\* Mutant of Unregister: the callback stays registered.
Unregister_Keep(cbs, c) == cbs

\* except ConnectionClosedOK: all_character_callbacks.remove(fn)
Unregister(cbs, c) == Remove(cbs, c)

\* The host calls the callback registered for connection c. The location is
\* read from the host only when a message is made.
fn(c, event, interact) ==
    LET k == conns[c] IN
    /\ c \in Range(all_character_callbacks)
    /\ other_call' = (~interact \/ event # "begin")
    /\ IF ~Qualifies(event, interact)
       THEN UNCHANGED << conns, all_character_callbacks, escaped >>
       ELSE /\ k.first \/ SendCalls < MaxSends
            /\ \E loc \in (IF k.first THEN {CHOOSE l \in Locations : TRUE} ELSE Locations) :
                  conns' = [conns EXCEPT ![c] = AfterBegin(k, current_line(loc))]
            /\ all_character_callbacks' =
                  IF ~k.first /\ SendResult(k) = "closed_ok"
                  THEN Unregister(all_character_callbacks, c)
                  ELSE all_character_callbacks
            /\ escaped' = (escaped \/ (~k.first /\ SendResult(k) = "closed_error"))
    /\ UNCHANGED << hostvars, threads, quit_callbacks, mainvars, nframes >>

\* ------------------------------------------------------------ environment
\* The peer sends a text frame on an open connection.
peer_send(c, m) ==
    /\ IsOpen(conns[c])
    /\ nframes < MaxInbox
    /\ nframes' = nframes + 1
    /\ conns' = [conns EXCEPT ![c].inbox = Append(@, m)]
    /\ UNCHANGED << hostvars, threads, cbvars, mainvars >>

\* The connection ends: the peer closes it with a close code, or it is lost
\* (1006).
peer_close(c, code) ==
    /\ IsOpen(conns[c])
    /\ conns' = [conns EXCEPT ![c].code = code]
    /\ UNCHANGED << hostvars, threads, cbvars, mainvars, nframes >>

\* The host runs renpy.config.quit_callbacks: every registered quit closes
\* its websocket with code 4000; closing a closed websocket does nothing.
quit ==
    /\ quit_callbacks # <<>>
    /\ conns' = [ c \in DOMAIN conns |->
                    IF c \in Range(quit_callbacks) /\ IsOpen(conns[c])
                    THEN [conns[c] EXCEPT !.code = ShutdownCode]
                    ELSE conns[c] ]
    /\ UNCHANGED << hostvars, threads, cbvars, mainvars, nframes >>

\* --------------------------------------------------------- specifications
Manager ==
    \/ \E w \in Workers : \E outcome \in ConnectOutcomes : socket_service(w, outcome)
    \/ \E w \in Workers : backoff(w)
    \/ \E w \in Workers : socket_listener(w)

Lifecycle ==
    \/ run_post_init
    \/ init_done

Closing ==
    \/ \E c \in DOMAIN conns : \E code \in CloseCodes : peer_close(c, code)
    \/ quit

Commands ==
    \/ \E c \in DOMAIN conns : \E m \in Messages : peer_send(c, m)
    \/ \E w \in Workers : py_exec(w)
    \/ main_thread

Reports ==
    \E c \in DOMAIN conns : \E event \in Events : \E interact \in BOOLEAN :
       fn(c, event, interact)

\* The whole program: the agent, the host and the peer.
Next == Lifecycle \/ Manager \/ Closing \/ Commands \/ Reports

Spec == Init /\ [][Next]_vars

\* The listener and the reporter share nothing but the connection's close
\* code: fn reads and writes first, out and the callback list, the listener
\* the inbox and the thread. The two specifications below each leave one of
\* the two inputs out, which keeps the bounds of the other one useful.
\*
\* The program while the host raises no character event.
NextCommands == Lifecycle \/ Manager \/ Closing \/ Commands

SpecCommands == Init /\ [][NextCommands]_vars

\* The next step of worker thread w, whatever its position.
thread_step(w) ==
    \/ \E outcome \in ConnectOutcomes : socket_service(w, outcome)
    \/ backoff(w)
    \/ socket_listener(w)
    \/ py_exec(w)

\* SpecCommands with the scheduling the code relies on: the host gets through
\* its init phase, and a worker thread that can take a step takes it (a
\* connection attempt returns or raises within its timeouts, sleep(5) and
\* sleep(0.2) return, the iteration over the websocket yields a frame that
\* has arrived). Nothing makes the peer send or close.
SpecCommandsFair ==
    /\ SpecCommands
    /\ WF_vars(Lifecycle)
    /\ \A w \in 1 .. MaxStarts : WF_vars(w \in Workers /\ thread_step(w))

\* The program while a server accepts every connection attempt: what is left
\* of SpecCommands when no attempt fails. The thread that polls in py_exec
\* every 0.2 s is scheduled again and again.
NextServed ==
    \/ Lifecycle
    \/ \E w \in Workers : socket_service(w, "ok")
    \/ \E w \in Workers : backoff(w)
    \/ \E w \in Workers : socket_listener(w)
    \/ Closing
    \/ Commands

SpecServed == Init /\ [][NextServed]_vars

SpecServedFair ==
    /\ SpecServed
    /\ \A w \in 1 .. MaxStarts : WF_vars(w \in Workers /\ py_exec(w))

\* The program while the peer sends no frame.
NextReports == Lifecycle \/ Manager \/ Closing \/ Reports

SpecReports == Init /\ [][NextReports]_vars

\* The program while no server listens on any port and the host calls
\* start_renpy_warp_service itself, any number of times.
NextCalls ==
    \/ start_renpy_warp_service
    \/ Lifecycle
    \/ \E w \in Workers : socket_service(w, "refused")
    \/ \E w \in Workers : backoff(w)

SpecCalls == Init /\ [][NextCalls]_vars

\* ================================================================ claims
Last(q) == q[Len(q)]

\* The listener of thread w takes a step while the next frame is malformed.
ReadsMalformed(w) ==
    /\ threads[w].pc = "listen"
    /\ conns[threads[w].conn].inbox # <<>>
    /\ Raises(Head(conns[threads[w].conn].inbox))
    /\ Len(conns'[threads[w].conn].inbox) < Len(conns[threads[w].conn].inbox)

\* C1: when the listener reads a malformed frame (not JSON, or without the
\* type key) it stays in the receive loop of the same connection, the
\* connection is not closed and the worker keeps running.
C1_MalformedContinues ==
    [][ \A w \in Workers :
          ReadsMalformed(w) =>
             /\ threads'[w].pc = "listen"
             /\ threads'[w].conn = threads[w].conn
             /\ conns'[threads[w].conn].code = conns[threads[w].conn].code ]_vars

\* C2: on no connection are two successive messages that went out
\* byte-identical: a payload equal to the last message sent is not sent again.
C2_NoDuplicateSend ==
    \A c \in DOMAIN conns :
       \A i \in 1 .. Len(conns[c].out) - 1 : conns[c].out[i] # conns[c].out[i + 1]

\* C3: however often start_renpy_warp_service is called with the developer
\* flag set, at most one background worker is spawned.
C3_AtMostOneWorker == Len(threads) <= 1

\* The listener of thread w takes the step that ends the iteration over the
\* websocket, the connection having been closed with a code in `codes`.
ListenEnds(w, codes) ==
    /\ threads[w].pc = "listen"
    /\ conns[threads[w].conn].inbox = <<>>
    /\ conns[threads[w].conn].code \in codes
    /\ threads'[w] # threads[w]

\* C4: once a thread's connection has ended with close code 4000 as the
\* cause, its retry loop halts for good: service_closed stays set, and the
\* thread makes no connection attempt on any port any more.
C4_ShutdownHalts ==
    [][ \A w \in Workers :
          /\ ListenEnds(w, {ShutdownCode}) => threads'[w].service_closed
          /\ threads[w].service_closed =>
                /\ threads'[w].service_closed
                /\ threads'[w].pc \in {"sleep", "done"}
                /\ threads'[w].scan = threads[w].scan
                /\ threads'[w].conn = 0 ]_vars

C4_Witness ==
    \E w \in Workers : \E c \in DOMAIN conns :
       /\ threads[w].pc = "done"
       /\ threads[w].service_closed
       /\ conns[c].code = ShutdownCode

\* The ports from FirstPort on, n of them, in ascending order.
Ascending(n) == [i \in 1 .. n |-> FirstPort + i - 1]

\* C5: while every port refuses the connection, a thread has attempted
\* exactly the ports below the current one, each once and in ascending order
\* from 40111; it is in its backoff wait only after all of 40111..40120 have
\* been attempted, and the pass after the wait starts at 40111 again.
C5_ScanOrder ==
    \A w \in Workers :
       /\ threads[w].pc \in {"connect", "sleep"}
       /\ threads[w].pc = "connect" =>
             /\ threads[w].port \in Ports
             /\ threads[w].scan = Ascending(threads[w].port - FirstPort)
       /\ threads[w].pc = "sleep" =>
             threads[w].scan = Ascending(LastPort - FirstPort + 1)

C5_Witness ==
    \E w \in Workers :
       /\ threads[w].pc = "sleep"
       /\ Len(threads[w].scan) = LastPort - FirstPort + 1

\* C6 as stated: after a graceful close by the peer the next connection
\* attempt of the thread is on the first port of the range, whatever port the
\* closed connection was on.
C6_RestartFromTop ==
    [][ \A w \in Workers :
          ListenEnds(w, OkCodes) =>
             /\ threads'[w].pc \in {"connect", "sleep"}
             /\ threads'[w].pc = "connect" => threads'[w].port = FirstPort ]_vars

\* C6 amended: after a graceful close by the peer the thread is disconnected
\* and its next attempt is on the port after the one of the closed
\* connection; when that was the last port of the range, the thread waits the
\* backoff interval and then attempts the first port.
C6_NextPortAfterClose ==
    [][ \A w \in Workers :
          /\ ListenEnds(w, OkCodes) =>
                /\ threads'[w].conn = 0
                /\ ~threads'[w].service_closed
                /\ IF threads[w].port < LastPort
                   THEN threads'[w].pc = "connect" /\ threads'[w].port = threads[w].port + 1
                   ELSE threads'[w].pc = "sleep" /\ threads'[w].port = LastPort
          /\ (threads[w].pc = "sleep" /\ ~threads[w].service_closed /\ threads'[w] # threads[w]) =>
                threads'[w].pc = "connect" /\ threads'[w].port = FirstPort ]_vars

C6_Witness ==
    \E w \in Workers :
       /\ Len(conns) = 1
       /\ conns[1].code \in OkCodes
       /\ nframes = 0
       /\ threads[w].pc = "connect"
       /\ threads[w].port > FirstPort
       /\ threads[w].scan # <<>>
       /\ Last(threads[w].scan) = threads[w].port - 1

\* C7: no exception ever leaves the reporter callback into the host's event
\* dispatch, whatever the event and the state of the connection.
C7_NoEscape == escaped = FALSE

\* C8: when a send of the reporter fails because the connection was closed
\* gracefully, the callback is unregistered in that call and nothing is raised
\* into the host; a callback that is no longer registered stays unregistered
\* and attempts no further send.
C8_SelfTeardown ==
    [][ \A c \in DOMAIN conns :
          /\ (conns'[c].sends > conns[c].sends /\ conns[c].code \in OkCodes) =>
                /\ c \notin Range(all_character_callbacks')
                /\ escaped' = escaped
                /\ conns'[c].out = conns[c].out
          /\ c \notin Range(all_character_callbacks) =>
                /\ c \notin Range(all_character_callbacks')
                /\ conns'[c].sends = conns[c].sends
                /\ conns'[c].out = conns[c].out ]_vars

C8_Witness ==
    \E c \in DOMAIN conns :
       /\ conns[c].code \in OkCodes
       /\ conns[c].sends > Len(conns[c].out)
       /\ c \notin Range(all_character_callbacks)
       /\ ~escaped

\* C9: on every connection the first qualifying event is the one that is not
\* sent, and each later qualifying event makes one call of websocket.send: the
\* send calls number one less than the qualifying events, and nothing has gone
\* out before the second qualifying event.
C9_FirstSuppressed ==
    \A c \in DOMAIN conns :
       /\ conns[c].first = (conns[c].begins = 0)
       /\ conns[c].sends = IF conns[c].begins = 0 THEN 0 ELSE conns[c].begins - 1
       /\ Len(conns[c].out) <= conns[c].sends

C9_Witness ==
    /\ Len(conns) >= 2
    /\ conns[1].begins >= 2 /\ Len(conns[1].out) = 1
    /\ conns[2].begins >= 2 /\ Len(conns[2].out) = 1

\* Thread w hands a reload to the main thread in this step.
HandsReload(w) ==
    /\ threads[w].pc = "py_exec"
    /\ threads[w].text.op = "reload_script"
    /\ threads'[w] # threads[w]

\* No thread is in the receive loop of connection c.
Left(c) == \A w \in Workers : threads[w].conn # c

\* C10: with the dispatch of a reload the thread leaves the receive loop of
\* the connection and the frames queued behind the reload are dropped unread;
\* a connection the listener has left is never read again and nothing more is
\* handed to the main thread for it.
C10_ReloadStops ==
    [][ /\ \A w \in Workers :
             HandsReload(w) =>
                /\ threads'[w].conn # threads[w].conn
                /\ threads'[w].pc \in {"connect", "sleep"}
                /\ conns'[threads[w].conn].inbox = <<>>
                /\ ~IsOpen(conns'[threads[w].conn])
        /\ \A c \in DOMAIN conns :
             Left(c) =>
                /\ \A w \in Workers : threads'[w].conn # c
                /\ conns'[c].inbox = <<>>
                /\ conns'[c].dropped = conns[c].dropped ]_vars

C10_Witness ==
    \E c \in DOMAIN conns : \E w \in Workers :
       /\ Len(threads) = 1
       /\ threads[w].pc \in {"connect", "sleep"}
       /\ conns[c].dropped >= 1
       /\ \E i \in DOMAIN main_queue : main_queue[i].op = "reload_script"

\* The listener of thread w takes a frame of a type it does not know.
ReadsUnhandled(w) ==
    /\ threads[w].pc = "listen"
    /\ conns[threads[w].conn].inbox # <<>>
    /\ ~Raises(Head(conns[threads[w].conn].inbox))
    /\ ~Recognized(Head(conns[threads[w].conn].inbox))
    /\ Len(conns'[threads[w].conn].inbox) < Len(conns[threads[w].conn].inbox)

\* C11: when the listener reads a message whose type it does not know, it
\* prints one log line, hands nothing to the main thread, leaves the
\* connection as it is (open when it was open) and stays in the receive loop
\* of that connection with the frames behind the message still to be read.
C11_UnhandledLogged ==
    [][ \A w \in Workers :
          ReadsUnhandled(w) =>
             /\ conns'[threads[w].conn].unhandled = conns[threads[w].conn].unhandled + 1
             /\ main_queue' = main_queue
             /\ conns'[threads[w].conn].code = conns[threads[w].conn].code
             /\ conns'[threads[w].conn].inbox = Tail(conns[threads[w].conn].inbox)
             /\ threads'[w].pc = "listen"
             /\ threads'[w].conn = threads[w].conn ]_vars

\* An unknown message was logged on an open connection and the message that
\* came after it was dispatched.
C11_Witness ==
    \E w \in Workers :
       /\ threads[w].conn # 0
       /\ conns[threads[w].conn].unhandled = 1
       /\ IsOpen(conns[threads[w].conn])
       /\ threads[w].pc = "py_exec"

\* Thread w makes a connection attempt in this step.
Attempts(w) ==
    /\ threads[w].pc = "connect"
    /\ threads'[w] # threads[w]

\* C12: whichever way a connection attempt fails, and with whichever close
\* code other than the shutdown code a connection ends, the worker goes on
\* with the next port (after the last port, with the backoff wait): the
\* thread does not stop.
C12_ErrorsContinue ==
    [][ \A w \in Workers :
          /\ Attempts(w) =>
                \/ threads'[w].pc = "listen"
                \/ /\ threads'[w].pc = "connect"
                   /\ threads'[w].port = threads[w].port + 1
                \/ /\ threads'[w].pc = "sleep"
                   /\ threads[w].port = LastPort
          /\ ListenEnds(w, CloseCodes \ {ShutdownCode}) =>
                /\ threads'[w].pc \in {"connect", "sleep"}
                /\ ~threads'[w].service_closed ]_vars

\* The connections that are open.
OpenConns == { c \in DOMAIN conns : IsOpen(conns[c]) }

\* C13: at most one connection is open at any time; an open connection is
\* the one its worker thread is serving, and whenever the worker is about to
\* make a connection attempt, or waits between passes, every connection made
\* before is closed.
C13_OneOpenConnection ==
    /\ Cardinality(OpenConns) <= 1
    /\ \A c \in OpenConns :
          \E w \in Workers : threads[w].conn = c /\ threads[w].pc \in {"listen", "py_exec"}
    /\ \A w \in Workers :
          threads[w].pc \in {"connect", "sleep"} => OpenConns = {}

\* A second connection is open after the first one was left by a reload
\* while the peer had not closed it.
C13_Witness ==
    /\ Len(conns) = 2
    /\ conns[1].code = 1000
    /\ IsOpen(conns[2])
    /\ \E i \in DOMAIN main_queue : main_queue[i].op = "reload_script"

\* C14: work is handed to the main thread only when the host is not in its
\* init phase, and only by a worker thread that is in py_exec, whose text is
\* what is handed over; a thread that is in py_exec when the init phase is
\* over does hand its text over.
C14_HandOffAfterInit ==
    /\ [][ Len(main_queue') > Len(main_queue) =>
             /\ ~init_phase
             /\ \E w \in Workers :
                   /\ threads[w].pc = "py_exec"
                   /\ threads'[w].pc # "py_exec"
                   /\ main_queue' = Append(main_queue, threads[w].text) ]_vars
    /\ [][ \A w \in Workers :
             (threads[w].pc = "py_exec" /\ threads'[w] # threads[w]) =>
                ~init_phase /\ main_queue' = Append(main_queue, threads[w].text) ]_vars
    /\ \A w \in 1 .. MaxStarts :
          (w \in Workers /\ threads[w].pc = "py_exec" /\ ~init_phase)
             ~> (w \in Workers /\ threads[w].pc # "py_exec")

\* A thread has read a command and polls in py_exec while the host is still
\* in its init phase; nothing has been handed over.
C14_Witness ==
    \E w \in Workers :
       /\ init_phase
       /\ threads[w].pc = "py_exec"
       /\ threads[w].text.op = "warp_to_line"
       /\ main_queue = <<>>

\* C15: while the host's developer flag is false there is no worker thread,
\* so no connection attempt has been made, no connection exists, and no
\* reporter callback and no quit callback is registered; a worker thread
\* exists only when the flag is true.
C15_InertUnlessDeveloper ==
    /\ ~developer =>
          /\ threads = <<>>
          /\ conns = <<>>
          /\ all_character_callbacks = <<>>
          /\ quit_callbacks = <<>>
    /\ threads # <<>> => developer

\* The host has run start_renpy_warp_service with the flag false and has left
\* its init phase.
C15_Witness ==
    /\ ~developer
    /\ post_init = <<>>
    /\ ~init_phase
    /\ threads = <<>>

\* The main thread runs a piece of work whose text is that of `op`.
Runs(op) ==
    /\ main_queue # <<>>
    /\ Head(main_queue).op = op
    /\ main_queue' = Tail(main_queue)

\* C16: a set_autoreload frame makes the listener hand the set_autoreload
\* script to the main thread and go on reading the same connection; when the
\* script runs while autoreload is off it turns autoreload on and calls
\* reload_script once, and when it runs while autoreload is on it changes
\* nothing and calls no reload.
C16_SetAutoreload ==
    [][ /\ \A w \in Workers :
             /\ ( /\ threads[w].pc = "listen"
                  /\ conns[threads[w].conn].inbox # <<>>
                  /\ Head(conns[threads[w].conn].inbox) = AutoMsg
                  /\ threads'[w] # threads[w] ) =>
                      /\ threads'[w].pc = "py_exec"
                      /\ threads'[w].text = Text("set_autoreload", <<>>)
                      /\ threads'[w].conn = threads[w].conn
             /\ ( /\ threads[w].pc = "py_exec"
                  /\ threads[w].text.op = "set_autoreload"
                  /\ threads'[w] # threads[w] ) =>
                      /\ main_queue' = Append(main_queue, threads[w].text)
                      /\ threads'[w].pc = "listen"
                      /\ threads'[w].conn = threads[w].conn
                      /\ conns' = conns
        /\ Runs("set_autoreload") =>
             IF autoreload = FALSE
             THEN autoreload' = TRUE /\ reloads' = reloads + 1
             ELSE autoreload' = autoreload /\ reloads' = reloads ]_vars

\* A first set_autoreload has turned autoreload on, with its one reload; a
\* second one is waiting for the main thread and the listener reads on.
C16_Witness ==
    \E w \in Workers :
       /\ autoreload = TRUE
       /\ reloads = 1
       /\ main_queue = << Text("set_autoreload", <<>>) >>
       /\ threads[w].pc = "listen"
       /\ Len(conns) = 1

\* A connection has been closed with the shutdown code.
ShutdownSeen == \E c \in DOMAIN conns : conns[c].code = ShutdownCode

\* C17: unless a connection has been closed with the shutdown code, a worker
\* thread that is neither at a connection attempt nor serving a connection
\* comes to a connection attempt again: no failed attempt, no end of a
\* connection and no inbound message stops the loop.
C17_NeverStops ==
    \A w \in 1 .. MaxStarts :
       (w \in Workers /\ threads[w].pc \notin {"connect", "listen", "py_exec"})
          ~> (w \in Workers /\ (threads[w].pc = "connect" \/ ShutdownSeen))

\* C18: at most one reporter callback is registered with the host, and a
\* registered callback is that of the connection established last: once a
\* later connection is established, no callback of an earlier connection is
\* registered any more.
C18_OneCallback ==
    /\ Len(all_character_callbacks) <= 1
    /\ \A c \in Range(all_character_callbacks) : c = Len(conns)

\* C19: a call of a reporter callback with interact false, or with an event
\* other than "begin", sends nothing and changes nothing of any reporter: the
\* connections (with their first flags and their send counts), the registered
\* callbacks and the host's dispatch are as before; the first qualifying
\* event after it is still the suppressed one.
C19_OthersIgnored ==
    [][ (~other_call /\ other_call') =>
             /\ conns' = conns
             /\ all_character_callbacks' = all_character_callbacks
             /\ quit_callbacks' = quit_callbacks
             /\ escaped' = escaped ]_vars

\* The callback of a connection was last called with interact false or with
\* an "end" event while its first flag was still set: the flag is still set
\* and nothing was sent.
C19_Witness ==
    /\ other_call
    /\ Len(conns) = 1
    /\ all_character_callbacks = << 1 >>
    /\ conns[1].first
    /\ conns[1].sends = 0

IsPrefix(p, q) == Len(p) <= Len(q) /\ p = SubSeq(q, 1, Len(p))

\* The code texts of the recognized commands among the frames q, in order.
RECURSIVE Scripts(_)
Scripts(q) ==
    IF q = <<>> THEN <<>>
    ELSE IF Recognized(Head(q)) THEN << ScriptOf(Head(q)) >> \o Scripts(Tail(q))
    ELSE Scripts(Tail(q))

\* The commands on their way through thread w, oldest first: those handed to
\* the main thread and not yet run, the one the thread holds in py_exec, and
\* those received on its connection and not yet read.
Line(w) ==
    main_queue
    \o (IF threads[w].pc = "py_exec" THEN << threads[w].text >> ELSE <<>>)
    \o (IF threads[w].conn # 0 THEN Scripts(conns[threads[w].conn].inbox) ELSE <<>>)

\* C20: every step of a worker thread leaves the commands on their way in
\* the order in which they were received, none of them twice: the thread
\* reads the oldest unread frame, hands over the one command it holds behind
\* the work already waiting, and at most drops the commands at the end of the
\* line. The thread does not wait for the main thread: whatever work is
\* waiting there, it can read the next frame, and outside the init phase it
\* can hand over.
C20_FifoHandOff ==
    /\ [][ \A w \in Workers :
             threads'[w] # threads[w] =>
                /\ IsPrefix(Line(w)', Line(w))
                /\ IsPrefix(main_queue, main_queue')
                /\ Len(main_queue') <= Len(main_queue) + 1
                /\ threads[w].pc = "py_exec" =>
                      /\ main_queue' = Append(main_queue, threads[w].text)
                      /\ threads'[w].text = NoText
                /\ (threads[w].pc = "listen" /\ threads'[w].pc = "py_exec") =>
                      /\ threads'[w].text = ScriptOf(Head(conns[threads[w].conn].inbox))
                      /\ conns'[threads[w].conn].inbox = Tail(conns[threads[w].conn].inbox)
                      /\ main_queue' = main_queue ]_vars
    /\ [](\A w \in Workers :
            /\ (threads[w].pc = "py_exec" /\ ~init_phase) => ENABLED py_exec(w)
            /\ (threads[w].pc = "listen" /\ conns[threads[w].conn].inbox # <<>>) =>
                  ENABLED socket_listener(w))

\* Two commands were received on one connection; the first is still waiting
\* for the main thread while the thread already holds the second.
C20_Witness ==
    \E w \in Workers :
       /\ Len(conns) = 1
       /\ nframes = 2
       /\ main_queue = << ScriptOf(WarpMsg) >>
       /\ threads[w].pc = "py_exec"
       /\ threads[w].text = ScriptOf(AutoMsg)

====
